---- MODULE Spec2Model ----
(***************************************************************************)
(* quad_trajectories: position-only reference trajectories [x, y, z, yaw]  *)
(* for a quadrotor, the derivative wrappers and the horizon utilities.     *)
(*                                                                         *)
(* Numbers.  The program computes in float64; the model computes over the  *)
(* exact rationals <<num, den>> (den > 0, lowest terms), i.e. the real     *)
(* arithmetic that the floats approximate.  Values that are not rational   *)
(* (multiples of 2*pi, cos/sin of an angle, a square root) are kept        *)
(* symbolically: a value Val is  c + u * (2*pi)^tw * fn(th)  with c, u, th *)
(* rational, fn in {"one", "cos", "sin", "sqrt"}; for cos and sin the      *)
(* argument is 2*pi*th (th counts turns), for sqrt it is th itself.        *)
(*                                                                         *)
(* Position functions.  Each position function is modelled by its list of *)
(* assignments, in source order, and its return expression; the Python     *)
(* code that reads ctx (an "if ctx.double_speed", a raise) is decided when *)
(* the list is built, as it is when jax traces the function.  Exec runs    *)
(* the assignments at a time t and leaves the local variables.             *)
(*                                                                         *)
(* Automatic differentiation.  jacfwd is forward mode: Exec runs on dual   *)
(* numbers (primal p, tangent d); the tangent of t is seeded with 1 under  *)
(* jacfwd and with 0 in a plain call.                                      *)
(***************************************************************************)
EXTENDS Integers, Sequences, FiniteSets, TLC

VARIABLES call, result, locals
vars == <<call, result, locals>>

----------------------------------------------------------------------------
(* Bounds of the explored inputs *)

MaxK == 12          \* position calls: t = (k + o) * Quantum(fn), k in -MaxK..MaxK
MaxHoverMode == 9   \* hover_mode ranges over None and 0..MaxHoverMode
MaxSteps == 3       \* horizon calls: num_steps in -1..MaxSteps

----------------------------------------------------------------------------
(* Exact rational arithmetic *)

Abs(x) == IF x < 0 THEN -x ELSE x

RECURSIVE GCD(_, _)
GCD(a, b) == IF b = 0 THEN a ELSE GCD(b, a % b)

Q(n, d) ==
    LET s == IF d < 0 THEN -1 ELSE 1
        g == GCD(Abs(n), Abs(d))
    IN  <<(s * n) \div g, (s * d) \div g>>

Q0 == <<0, 1>>
Q1 == <<1, 1>>
QInt(n) == <<n, 1>>
QAdd(a, b) == Q(a[1] * b[2] + b[1] * a[2], a[2] * b[2])
QNeg(a) == <<-a[1], a[2]>>
QSub(a, b) == QAdd(a, QNeg(b))
QMul(a, b) == Q(a[1] * b[1], a[2] * b[2])
QDiv(a, b) == Q(a[1] * b[2], a[2] * b[1])
QLt(a, b) == a[1] * b[2] < b[1] * a[2]
QLe(a, b) == a[1] * b[2] <= b[1] * a[2]
\* floor of a rational (an integer); \div rounds towards minus infinity
QFloor(a) == a[1] \div a[2]
\* the C remainder: the quotient is truncated, the result takes the sign of a
QMod_truncated(a, m) ==
    LET q == QDiv(a, m)
        trunc == IF q[1] < 0 THEN -((-q[1]) \div q[2]) ELSE q[1] \div q[2]
    IN  QSub(a, QMul(m, QInt(trunc)))
\* Python / jnp.remainder: the result takes the sign of the (positive) divisor
QMod(a, m) == QSub(a, QMul(m, QInt(QFloor(QDiv(a, m)))))

----------------------------------------------------------------------------
(* Symbolic values  c + u * (2*pi)^tw * fn(th) *)

VNorm(v) ==
    IF v.u = Q0 THEN [c |-> v.c, u |-> Q0, tw |-> 0, fn |-> "one", th |-> Q0]
    ELSE IF v.fn = "one" /\ v.tw = 0
         THEN [c |-> QAdd(v.c, v.u), u |-> Q0, tw |-> 0, fn |-> "one", th |-> Q0]
    ELSE IF v.fn = "one" THEN [v EXCEPT !.th = Q0]
    ELSE v

VQ(q) == [c |-> q, u |-> Q0, tw |-> 0, fn |-> "one", th |-> Q0]
VMono(u, tw, fn, th) == VNorm([c |-> Q0, u |-> u, tw |-> tw, fn |-> fn, th |-> th])
IsRat(v) == v.u = Q0
SameBasis(a, b) == a.tw = b.tw /\ a.fn = b.fn /\ a.th = b.th
Unsupported == [c |-> Q0, u |-> Q1, tw |-> 0, fn |-> "unsupported", th |-> Q0]

VAdd(a, b) ==
    IF IsRat(a) THEN [b EXCEPT !.c = QAdd(a.c, b.c)]
    ELSE IF IsRat(b) THEN [a EXCEPT !.c = QAdd(a.c, b.c)]
    ELSE IF SameBasis(a, b)
         THEN VNorm([a EXCEPT !.c = QAdd(a.c, b.c), !.u = QAdd(a.u, b.u)])
    ELSE Unsupported

VScale(q, v) == VNorm([v EXCEPT !.c = QMul(q, v.c), !.u = QMul(q, v.u)])
VNeg(v) == VScale(QInt(-1), v)

VMul(a, b) ==
    IF IsRat(a) THEN VScale(a.c, b)
    ELSE IF IsRat(b) THEN VScale(b.c, a)
    ELSE IF a.c = Q0 /\ b.c = Q0 /\ a.fn = "one"
         THEN VMono(QMul(a.u, b.u), a.tw + b.tw, b.fn, b.th)
    ELSE IF a.c = Q0 /\ b.c = Q0 /\ b.fn = "one"
         THEN VMono(QMul(a.u, b.u), a.tw + b.tw, a.fn, a.th)
    ELSE Unsupported

\* 1 / v for a nonzero rational or a pure multiple of a power of 2*pi
VInv(v) ==
    IF IsRat(v) THEN VQ(QDiv(Q1, v.c))
    ELSE IF v.c = Q0 /\ v.fn = "one" THEN VMono(QDiv(Q1, v.u), -v.tw, "one", Q0)
    ELSE Unsupported

\* 2 * jnp.pi
TwoPi == VMono(Q1, 1, "one", Q0)
\* an angle is a multiple of 2*pi; Turns reads the multiple
IsAngle(v) == v.c = Q0 /\ v.fn = "one" /\ (v.u = Q0 \/ v.tw = 1)
Turns(v) == v.u

\* the integer square root of n when n is a perfect square, else -1
RECURSIVE ISqrtFrom(_, _)
ISqrtFrom(n, r) == IF r * r = n THEN r ELSE IF r * r > n THEN -1 ELSE ISqrtFrom(n, r + 1)

VSqrt(q) ==
    LET a == ISqrtFrom(q[1], 0)
        b == ISqrtFrom(q[2], 0)
    IN  IF a >= 0 /\ b >= 0 THEN VQ(Q(a, b)) ELSE VMono(Q1, 0, "sqrt", q)

----------------------------------------------------------------------------
(* Dual numbers: forward-mode differentiation with respect to t *)

Dual(p, d) == [p |-> p, d |-> d]
DConst(q) == Dual(VQ(q), VQ(Q0))
DVal(v) == Dual(v, VQ(Q0))
DAdd(a, b) == Dual(VAdd(a.p, b.p), VAdd(a.d, b.d))
DNeg(a) == Dual(VNeg(a.p), VNeg(a.d))
DSub(a, b) == DAdd(a, DNeg(b))
DMul(a, b) == Dual(VMul(a.p, b.p), VAdd(VMul(a.d, b.p), VMul(a.p, b.d)))
\* a / b for a divisor that does not depend on t (every divisor in the program)
DDiv(a, b) == Dual(VMul(a.p, VInv(b.p)), VMul(a.d, VInv(b.p)))
\* jnp.cos / jnp.sin of an angle
DCos(a) == Dual(VMono(Q1, 0, "cos", Turns(a.p)),
                VMul(VMono(QInt(-1), 0, "sin", Turns(a.p)), a.d))
DSin(a) == Dual(VMono(Q1, 0, "sin", Turns(a.p)),
                VMul(VMono(Q1, 0, "cos", Turns(a.p)), a.d))
\* t % m for a constant rational m: the remainder moves with t, slope 1
DMod(a, m) == Dual(VQ(QMod(a.p.c, m)), a.d)
\* t seeded as the differentiation variable (tangent 1)
DVar(q) == Dual(VQ(q), VQ(Q1))


----------------------------------------------------------------------------
(* Outcomes: a returned value or a raised exception *)

Ok(v) == [kind |-> "ok", val |-> v, exc |-> "", msg |-> ""]
Raise(e, m) == [kind |-> "raise", val |-> <<>>, exc |-> e, msg |-> m]
IsOk(r) == r.kind = "ok"

----------------------------------------------------------------------------
(* types.py: TrajContext.  An Optional field is <<>> (None) or <<v>> *)

None == <<>>
Some(v) == <<v>>
\* Python truth value of an Optional[bool]: None and False are falsy
Truthy(o) == o # None /\ o[1] = TRUE

OptBool == {None, Some(FALSE), Some(TRUE)}
HoverModes == {None} \cup {Some(m) : m \in 0..MaxHoverMode}

TrajContext ==
    [sim : BOOLEAN, hover_mode : HoverModes, spin : OptBool,
     double_speed : OptBool, short : OptBool]

----------------------------------------------------------------------------
(* jax_utils.py: jit.  jax.jit abstracts every argument that is not named  *)
(* static as an array; an argument that is neither a number nor an array   *)
(* (a Python callable, a dataclass instance) is rejected with TypeError    *)
(* before the body runs.  A static argument has to be hashable, which a    *)
(* frozen dataclass is.  Exceptions raised by the body while it is traced  *)
(* reach the caller, and nothing is cached for that call.                  *)

ArrayLike == {"float", "int", "array"}

jit(static_argnames, args, body) ==
    IF \E i \in DOMAIN args :
            args[i].name \notin static_argnames /\ args[i].kind \notin ArrayLike
    THEN Raise("TypeError", "not a valid JAX type")
    ELSE body

\* the parameters of a position function f(t, ctx)
PositionArgs == <<[name |-> "t", kind |-> "float"],
                  [name |-> "ctx", kind |-> "TrajContext"]>>


----------------------------------------------------------------------------
(* Expressions and assignments: the Python and jnp operations of core.py *)

V(name) == <<"var", name>>
Const(q) == <<"const", VQ(q)>>
ConstV(v) == <<"const", v>>
Add(a, b) == <<"add", a, b>>
Sub(a, b) == <<"sub", a, b>>
Mul(a, b) == <<"mul", a, b>>
Div(a, b) == <<"div", a, b>>
Neg(a) == <<"neg", a>>
Cos(a) == <<"cos", a>>
Sin(a) == <<"sin", a>>
Sqrt(a) == <<"sqrt", a>>
Mod(a, b) == <<"mod", a, b>>
Floor(a) == <<"floor", a>>
ClipInt(a, lo, hi) == <<"clip", a, lo, hi>>
\* a <= b with the operands in each other's place
Le_reversed(a, b) == <<"le", b, a>>
Le(a, b) == <<"le", a, b>>
\* jnp.where with its two branches in each other's place
Where_swapped(c, a, b) == <<"where", c, b, a>>
Where(c, a, b) == <<"where", c, a, b>>
\* jnp.array([e1, e2, ...])
Array(elems) == <<"array", elems>>
\* len(a)
LenOf(a) == <<"len", a>>
\* a[i], i an expression, Python's 0-based index
Item(a, i) == <<"item", a, i>>
\* 2 * jnp.pi
TwoPiE == ConstV(TwoPi)
\* name = expr
Assign(name, e) == <<name, e>>

\* seq[i] read one place too far, wrapping at the end
At_shifted(seq, i) == seq[((i + 1) % Len(seq)) + 1]
\* seq[i] with Python's 0-based index
At(seq, i) == seq[i + 1]
\* jnp.clip
Clip(x, lo, hi) == IF x < lo THEN lo ELSE IF x > hi THEN hi ELSE x
\* the integer an expression has as its value
IntOf(d) == d.p.c[1]

\* the value of expression e with the local variables env
RECURSIVE Eval(_, _)
Eval(e, env) ==
    CASE e[1] = "var" -> env[e[2]]
      [] e[1] = "const" -> DVal(e[2])
      [] e[1] = "add" -> DAdd(Eval(e[2], env), Eval(e[3], env))
      [] e[1] = "sub" -> DSub(Eval(e[2], env), Eval(e[3], env))
      [] e[1] = "mul" -> DMul(Eval(e[2], env), Eval(e[3], env))
      [] e[1] = "div" -> DDiv(Eval(e[2], env), Eval(e[3], env))
      [] e[1] = "neg" -> DNeg(Eval(e[2], env))
      [] e[1] = "cos" -> DCos(Eval(e[2], env))
      [] e[1] = "sin" -> DSin(Eval(e[2], env))
      \* jnp.sqrt of a constant
      [] e[1] = "sqrt" -> DVal(VSqrt(Eval(e[2], env).p.c))
      [] e[1] = "mod" -> DMod(Eval(e[2], env), Eval(e[3], env).p.c)
      \* floor, clip and astype(int) are piecewise constant: tangent 0
      [] e[1] = "floor" -> DConst(QInt(QFloor(Eval(e[2], env).p.c)))
      [] e[1] = "clip" -> DConst(QInt(Clip(IntOf(Eval(e[2], env)),
                                           IntOf(Eval(e[3], env)),
                                           IntOf(Eval(e[4], env)))))
      [] e[1] = "le" -> DConst(IF QLe(Eval(e[2], env).p.c, Eval(e[3], env).p.c)
                               THEN Q1 ELSE Q0)
      \* jnp.where: both branches are evaluated, one is selected
      [] e[1] = "where" -> IF Eval(e[2], env).p.c = Q1 THEN Eval(e[3], env)
                                                       ELSE Eval(e[4], env)
      [] e[1] = "array" -> [i \in 1..Len(e[2]) |-> Eval(e[2][i], env)]
      [] e[1] = "len" -> DConst(QInt(Len(Eval(e[2], env))))
      [] e[1] = "item" -> At(Eval(e[2], env), IntOf(Eval(e[3], env)))

\* the assignments stmts[i..] run in order, each one on the variables the
\* earlier ones left; a later assignment to a name replaces the earlier one
RECURSIVE Exec(_, _, _)
Exec(stmts, i, env) ==
    IF i > Len(stmts) THEN env
    ELSE LET assigned == (stmts[i][1] :> Eval(stmts[i][2], env)) @@ env
         IN  IF stmts[i][1] \in DOMAIN assigned THEN Exec(stmts, i + 1, assigned)
                                                ELSE env

\* a function body: its assignments and the four returned expressions
Body(stmts, ret) == [body |-> stmts, ret |-> ret]

----------------------------------------------------------------------------
(* core.py: the nine position functions *)

SIM_HEIGHT == Q(3, 1)
HARDWARE_HEIGHT == Q(17, 20)

\* height = HARDWARE_HEIGHT if not ctx.sim else SIM_HEIGHT
height_(ctx) == Assign("height", Const(IF ~ctx.sim THEN HARDWARE_HEIGHT ELSE SIM_HEIGHT))
\* omega_spin = 2 * jnp.pi / period_spin if ctx.spin else 0.0
omega_spin_(ctx) ==
    Assign("omega_spin", IF Truthy(ctx.spin) THEN Div(TwoPiE, V("period_spin"))
                                             ELSE Const(Q0))
\* if ctx.double_speed: name /= 2.0
halve_if_double_speed(ctx, name) ==
    IF Truthy(ctx.double_speed)
    THEN <<Assign(name, Div(V(name), Const(QInt(2))))>>
    ELSE <<>>
\* num_repeats left at 1 whatever ctx.double_speed is
num_repeats_single(ctx) == Assign("num_repeats", Const(QInt(1)))
\* num_repeats = 2 if ctx.double_speed else 1
num_repeats_(ctx) ==
    Assign("num_repeats", Const(QInt(IF Truthy(ctx.double_speed) THEN 2 ELSE 1)))

hover_dict ==
    [m \in 1..8 |->
        CASE m = 1 -> <<Q0, Q0, Q(-9, 10), Q0>>
          [] m = 2 -> <<Q0, Q(4, 5), Q(-9, 10), Q0>>
          [] m = 3 -> <<Q(4, 5), Q0, Q(-4, 5), Q0>>
          [] m = 4 -> <<Q(4, 5), Q(4, 5), Q(-4, 5), Q0>>
          [] m = 5 -> <<Q0, Q0, Q(-10, 1), Q0>>
          [] m = 6 -> <<Q1, Q1, Q(-4, 1), Q0>>
          [] m = 7 -> <<Q0, Q(10, 1), Q(-5, 1), Q0>>
          [] m = 8 -> <<Q1, Q1, Q(-3, 1), Q0>>]

\* hover with the hardware check made before the slot lookup
hover_checks_swapped(t, ctx) ==
    LET mode == IF ctx.hover_mode # None THEN ctx.hover_mode[1] ELSE 1
    IN  IF ~ctx.sim /\ mode > 4
        THEN Raise("RuntimeError", "hover modes 5+ not available for hardware")
        ELSE IF mode \notin DOMAIN hover_dict
        THEN Raise("ValueError", "hover_dict not found")
        ELSE Ok(Body(<<>>, [i \in 1..4 |-> Const(hover_dict[mode][i])]))

hover(t, ctx) ==
    jit({"ctx"}, PositionArgs,
        LET mode == IF ctx.hover_mode # None THEN ctx.hover_mode[1] ELSE 1
            sim == ctx.sim
        IN  IF mode \notin DOMAIN hover_dict
            THEN Raise("ValueError", "hover_dict not found")
            ELSE IF ~sim /\ mode > 4
            THEN Raise("RuntimeError", "hover modes 5+ not available for hardware")
            ELSE Ok(Body(<<>>, [i \in 1..4 |-> Const(hover_dict[mode][i])])))

yaw_only(t, ctx) ==
    jit({"ctx"}, PositionArgs,
        Ok(Body(<<height_(ctx),
                  Assign("spin_period", Const(Q(20, 1)))>>
                \o halve_if_double_speed(ctx, "spin_period") \o
                <<Assign("x", Const(Q0)),
                  Assign("y", Const(Q0)),
                  Assign("z", Neg(V("height"))),
                  Assign("yaw", Div(t, Div(V("spin_period"), TwoPiE)))>>,
                <<V("x"), V("y"), V("z"), V("yaw")>>)))

circle_horizontal(t, ctx) ==
    jit({"ctx"}, PositionArgs,
        Ok(Body(<<Assign("radius", Const(Q(3, 5))),
                  Assign("period_pos", Const(Q(13, 1))),
                  height_(ctx),
                  Assign("period_spin", Const(Q(20, 1))),
                  omega_spin_(ctx)>>
                \o halve_if_double_speed(ctx, "period_pos") \o
                <<Assign("omega_pos", Div(TwoPiE, V("period_pos"))),
                  Assign("x", Mul(V("radius"), Cos(Mul(V("omega_pos"), t)))),
                  Assign("y", Mul(V("radius"), Sin(Mul(V("omega_pos"), t)))),
                  Assign("z", Neg(V("height"))),
                  Assign("yaw", Mul(V("omega_spin"), t))>>,
                <<V("x"), V("y"), V("z"), V("yaw")>>)))

circle_vertical(t, ctx) ==
    jit({"ctx"}, PositionArgs,
        Ok(Body(<<Assign("radius", Const(Q(7, 20))),
                  Assign("period_pos", Const(Q(13, 1))),
                  height_(ctx),
                  Assign("period_spin", Const(Q(20, 1))),
                  omega_spin_(ctx)>>
                \o halve_if_double_speed(ctx, "period_pos") \o
                <<Assign("omega_pos", Div(TwoPiE, V("period_pos"))),
                  Assign("x", Mul(V("radius"), Cos(Mul(V("omega_pos"), t)))),
                  Assign("y", Const(Q0)),
                  Assign("z", Sub(Mul(Neg(V("radius")), Sin(Mul(V("omega_pos"), t))),
                                  V("height"))),
                  Assign("yaw", Mul(V("omega_spin"), t))>>,
                <<V("x"), V("y"), V("z"), V("yaw")>>)))

fig8_horizontal(t, ctx) ==
    jit({"ctx"}, PositionArgs,
        Ok(Body(<<Assign("radius", Const(Q(7, 20))),
                  Assign("period_pos", Const(Q(13, 1))),
                  height_(ctx),
                  Assign("period_spin", Const(Q(20, 1))),
                  omega_spin_(ctx)>>
                \o halve_if_double_speed(ctx, "period_pos") \o
                <<Assign("omega_pos", Div(TwoPiE, V("period_pos"))),
                  Assign("x", Mul(V("radius"),
                                  Sin(Mul(Mul(Const(QInt(2)), V("omega_pos")), t)))),
                  Assign("y", Mul(V("radius"), Sin(Mul(V("omega_pos"), t)))),
                  Assign("z", Neg(V("height"))),
                  Assign("yaw", Mul(V("omega_spin"), t))>>,
                <<V("x"), V("y"), V("z"), V("yaw")>>)))

\* jnp.where called with a Python value as its condition: jnp.where checks
\* that condition, x and y are arrays or scalars before it selects; None is
\* neither, and the call raises TypeError
jnp_where(cond, a, b) ==
    IF cond = None
    THEN Raise("TypeError", "where requires ndarray or scalar arguments")
    ELSE Ok(IF cond[1] THEN a ELSE b)

fig8_vertical(t, ctx) ==
    jit({"ctx"}, PositionArgs,
        LET y == jnp_where(ctx.short, V("yz1"), V("yz2"))
            z == jnp_where(ctx.short, Sub(Neg(V("yz2")), V("height")),
                                      Sub(Neg(V("yz1")), V("height")))
        IN  IF ~IsOk(y) THEN y
            ELSE IF ~IsOk(z) THEN z
            ELSE
            Ok(Body(<<Assign("radius", Const(Q(7, 20))),
                      Assign("period_pos", Const(Q(13, 1))),
                      height_(ctx),
                      Assign("period_spin", Const(Q(20, 1))),
                      omega_spin_(ctx)>>
                    \o halve_if_double_speed(ctx, "period_pos") \o
                    <<Assign("omega_pos", Div(TwoPiE, V("period_pos"))),
                      Assign("x", Const(Q0)),
                      Assign("yz1", Mul(V("radius"), Sin(Mul(V("omega_pos"), t)))),
                      Assign("yz2", Mul(V("radius"),
                                        Sin(Mul(Mul(Const(QInt(2)), V("omega_pos")), t)))),
                      Assign("y", y.val),
                      Assign("z", z.val),
                      Assign("yaw", Mul(V("omega_spin"), t))>>,
                    <<V("x"), V("y"), V("z"), V("yaw")>>)))

helix(t, ctx) ==
    jit({"ctx"}, PositionArgs,
        Ok(Body(<<Assign("z0", Const(IF ~ctx.sim THEN HARDWARE_HEIGHT ELSE Q(2, 1))),
                  Assign("z_max", Const(IF ~ctx.sim THEN Q(13, 5) ELSE SIM_HEIGHT)),
                  Assign("radius", Const(Q(3, 5))),
                  Assign("num_turns", Const(QInt(3))),
                  Assign("cycle_time", Const(Q(45, 1))),
                  Assign("period_spin", Const(Q(30, 1))),
                  omega_spin_(ctx)>>
                \o halve_if_double_speed(ctx, "cycle_time") \o
                <<Assign("t_cycle", Mod(t, V("cycle_time"))),
                  Assign("T_half", Div(V("cycle_time"), Const(QInt(2)))),
                  Assign("z_up", Add(V("z0"), Mul(Sub(V("z_max"), V("z0")),
                                                  Div(V("t_cycle"), V("T_half"))))),
                  Assign("progress_up", Div(Sub(V("z_up"), V("z0")),
                                            Sub(V("z_max"), V("z0")))),
                  Assign("t_down", Sub(V("t_cycle"), V("T_half"))),
                  Assign("z_down", Sub(V("z_max"), Mul(Sub(V("z_max"), V("z0")),
                                                       Div(V("t_down"), V("T_half"))))),
                  Assign("progress_down", Div(Sub(V("z_down"), V("z0")),
                                              Sub(V("z_max"), V("z0")))),
                  Assign("z", Where(Le(V("t_cycle"), V("T_half")), V("z_up"), V("z_down"))),
                  Assign("progress", Where(Le(V("t_cycle"), V("T_half")),
                                           V("progress_up"), V("progress_down"))),
                  Assign("theta", Mul(Mul(TwoPiE, V("num_turns")), V("progress"))),
                  Assign("x", Mul(V("radius"), Cos(V("theta")))),
                  Assign("y", Mul(V("radius"), Sin(V("theta")))),
                  Assign("yaw", Mul(V("omega_spin"), t))>>,
                <<V("x"), V("y"), Neg(V("z")), V("yaw")>>)))

\* the waypoints of sawtooth: 12 points [x, y], in fifths
sawtooth_points ==
    LET P(a, b) == Array(<<Const(Q(a, 5)), Const(Q(b, 5))>>)
    IN  Array(<<P(0, 0), P(0, 2), P(2, -2), P(2, 2), P(2, -2),
                P(0, 2), P(0, -2), P(-2, 2), P(-2, -2),
                P(-2, 2), P(0, -2), P(0, 0)>>)

sawtooth(t, ctx) ==
    jit({"ctx"}, PositionArgs,
        Ok(Body(<<height_(ctx),
                  Assign("flight_time", Const(Q(120, 1))),
                  num_repeats_(ctx),
                  Assign("period_spin", Const(Q(30, 1))),
                  omega_spin_(ctx),
                  Assign("points", sawtooth_points),
                  Assign("adjusted_flight_time", Div(V("flight_time"), V("num_repeats"))),
                  Assign("num_segments", Sub(LenOf(V("points")), Const(Q1))),
                  Assign("T_seg", Div(V("adjusted_flight_time"), V("num_segments"))),
                  Assign("cycle_time", Mod(t, Mul(V("num_segments"), V("T_seg")))),
                  Assign("segment_idx", Floor(Div(V("cycle_time"), V("T_seg")))),
                  Assign("segment_idx", ClipInt(V("segment_idx"), Const(Q0),
                                                Sub(V("num_segments"), Const(Q1)))),
                  Assign("local_time", Sub(V("cycle_time"),
                                           Mul(V("segment_idx"), V("T_seg")))),
                  Assign("start_point", Item(V("points"), V("segment_idx"))),
                  Assign("end_point",
                         Item(V("points"), Mod(Add(V("segment_idx"), Const(Q1)),
                                               LenOf(V("points"))))),
                  Assign("alpha", Div(V("local_time"), V("T_seg"))),
                  Assign("x", Add(Item(V("start_point"), Const(Q0)),
                                  Mul(Sub(Item(V("end_point"), Const(Q0)),
                                          Item(V("start_point"), Const(Q0))),
                                      V("alpha")))),
                  Assign("y", Add(Item(V("start_point"), Const(Q1)),
                                  Mul(Sub(Item(V("end_point"), Const(Q1)),
                                          Item(V("start_point"), Const(Q1))),
                                      V("alpha")))),
                  Assign("z", Neg(V("height"))),
                  Assign("yaw", Mul(V("omega_spin"), t))>>,
                <<V("x"), V("y"), V("z"), V("yaw")>>)))

\* the vertices of triangle: 3 points [x, y]
triangle_points ==
    Array(<<Array(<<Const(Q0), Div(V("h"), Const(QInt(2)))>>),
            Array(<<Div(V("side_length"), Const(QInt(2))),
                    Div(Neg(V("h")), Const(QInt(2)))>>),
            Array(<<Div(Neg(V("side_length")), Const(QInt(2))),
                    Div(Neg(V("h")), Const(QInt(2)))>>)>>)

triangle(t, ctx) ==
    jit({"ctx"}, PositionArgs,
        Ok(Body(<<height_(ctx),
                  Assign("side_length", Const(Q(4, 5))),
                  Assign("flight_time", Const(Q(60, 1))),
                  num_repeats_(ctx),
                  Assign("period_spin", Const(Q(20, 1))),
                  omega_spin_(ctx),
                  Assign("h", Sqrt(Sub(Mul(V("side_length"), V("side_length")),
                                       Mul(Div(V("side_length"), Const(QInt(2))),
                                           Div(V("side_length"), Const(QInt(2))))))),
                  Assign("points", triangle_points),
                  Assign("T_seg", Div(V("flight_time"),
                                      Mul(Const(QInt(3)), V("num_repeats")))),
                  Assign("cycle_time", Mod(t, Mul(Const(QInt(3)), V("T_seg")))),
                  Assign("segment_idx", Floor(Div(V("cycle_time"), V("T_seg")))),
                  Assign("segment_idx", ClipInt(V("segment_idx"), Const(Q0),
                                                Const(QInt(2)))),
                  Assign("local_time", Sub(V("cycle_time"),
                                           Mul(V("segment_idx"), V("T_seg")))),
                  Assign("start_point", Item(V("points"), V("segment_idx"))),
                  Assign("end_point",
                         Item(V("points"), Mod(Add(V("segment_idx"), Const(Q1)),
                                               Const(QInt(3))))),
                  Assign("alpha", Div(V("local_time"), V("T_seg"))),
                  Assign("x", Add(Item(V("start_point"), Const(Q0)),
                                  Mul(Sub(Item(V("end_point"), Const(Q0)),
                                          Item(V("start_point"), Const(Q0))),
                                      V("alpha")))),
                  Assign("y", Add(Item(V("start_point"), Const(Q1)),
                                  Mul(Sub(Item(V("end_point"), Const(Q1)),
                                          Item(V("start_point"), Const(Q1))),
                                      V("alpha")))),
                  Assign("z", Neg(V("height"))),
                  Assign("yaw", Mul(V("omega_spin"), t))>>,
                <<V("x"), V("y"), V("z"), V("yaw")>>)))

----------------------------------------------------------------------------
(* registry.py *)

TrajectoryType ==
    {"hover", "yaw_only", "circle_horz", "circle_vert", "fig8_horz",
     "fig8_vert", "helix", "sawtooth", "triangle"}

\* TRAJ_REGISTRY[fn](t, ctx)
TRAJ_REGISTRY(fn, t, ctx) ==
    CASE fn = "hover" -> hover(t, ctx)
      [] fn = "yaw_only" -> yaw_only(t, ctx)
      [] fn = "circle_horz" -> circle_horizontal(t, ctx)
      [] fn = "circle_vert" -> circle_vertical(t, ctx)
      [] fn = "fig8_horz" -> fig8_horizontal(t, ctx)
      [] fn = "fig8_vert" -> fig8_vertical(t, ctx)
      [] fn = "helix" -> helix(t, ctx)
      [] fn = "sawtooth" -> sawtooth(t, ctx)
      [] fn = "triangle" -> triangle(t, ctx)

----------------------------------------------------------------------------
(* Running a position function *)

\* the local variables after the body r has run at the dual time t
LocalsAt(r, t) == IF IsOk(r) THEN Exec(r.val.body, 1, "t" :> t) ELSE <<>>
\* the outcome of the function r at the dual time t: what it raised, or the
\* four returned components
Call(r, t) ==
    IF IsOk(r)
    THEN LET env == LocalsAt(r, t) IN Ok([i \in 1..4 |-> Eval(r.val.ret[i], env)])
    ELSE r
Primal(r) == IF IsOk(r) THEN Ok([i \in 1..4 |-> r.val[i].p]) ELSE r
Tangent(r) == IF IsOk(r) THEN Ok([i \in 1..4 |-> r.val[i].d]) ELSE r

\* traj_fn(t, ctx) called with a plain float
Position(fn, t, ctx) == Primal(Call(TRAJ_REGISTRY(fn, V("t"), ctx), DConst(t)))
\* jacfwd(lambda t_: traj_fn(t_, ctx))(t): the tangent of t is seeded with 1
Velocity(fn, t, ctx) == Tangent(Call(TRAJ_REGISTRY(fn, V("t"), ctx), DVar(t)))

----------------------------------------------------------------------------
(* utils.py: the horizon utilities.  A run of a utility records its        *)
(* outcome, the time samples it built (None when it built none) and        *)
(* whether the trajectory function was evaluated.                          *)

Run(out, t_samples, traced) == [out |-> out, t_samples |-> t_samples, traced |-> traced]

\* jnp.linspace with the end point left out (spacing (stop - start) / num)
jnp_linspace_no_endpoint(start, stop, num) ==
    IF num < 0
    THEN Raise("ValueError", "Number of samples must be non-negative.")
    ELSE Ok([k \in 1..num |->
                QAdd(start, QDiv(QMul(QSub(stop, start), QInt(k - 1)), QInt(num)))])

\* jnp.linspace(start, stop, num), endpoint included; num < 0 is rejected
jnp_linspace(start, stop, num) ==
    IF num < 0
    THEN Raise("ValueError", "Number of samples must be non-negative.")
    ELSE Ok([k \in 1..num |->
                IF num = 1 THEN start
                ELSE QAdd(start, QDiv(QMul(QSub(stop, start), QInt(k - 1)),
                                      QInt(num - 1)))])

\* if num_steps == 1: jnp.array([t_start]) else: jnp.linspace(...)
t_samples(t_start, horizon, num_steps) ==
    IF num_steps = 1 THEN Ok(<<t_start>>)
    ELSE jnp_linspace(t_start, QAdd(t_start, horizon), num_steps)

\* vmap(G)(xs): G is traced once on an abstract sample, whatever the batch
\* size, and what it raises then reaches the caller (traced is that outcome);
\* otherwise the rows G gives for the samples are stacked in sample order
vmap(traced, rows) ==
    IF ~IsOk(traced) THEN traced ELSE Ok([k \in DOMAIN rows |-> rows[k].val])

\* the parameters of the horizon utilities
HorizonArgs == <<[name |-> "traj_fn", kind |-> "function"],
                 [name |-> "ctx", kind |-> "TrajContext"],
                 [name |-> "t_start", kind |-> "float"],
                 [name |-> "horizon", kind |-> "float"],
                 [name |-> "num_steps", kind |-> "int"]>>

\* lines 95-100, what the body would do were it reached
generate_horizon_positions_body(traj_fn, ctx, t_start, horizon, num_steps) ==
    LET ts == t_samples(t_start, horizon, num_steps)
    IN  IF ~IsOk(ts) THEN Run(ts, None, FALSE)
        ELSE Run(vmap(Position(traj_fn, Q0, ctx),
                      [k \in DOMAIN ts.val |-> Position(traj_fn, ts.val[k], ctx)]),
                 Some(ts.val), TRUE)

\* decorated with a plain @jit: no argument is static
generate_horizon_positions(traj_fn, ctx, t_start, horizon, num_steps) ==
    IF IsOk(jit({}, HorizonArgs, Ok(<<>>)))
    THEN generate_horizon_positions_body(traj_fn, ctx, t_start, horizon, num_steps)
    ELSE Run(jit({}, HorizonArgs, Ok(<<>>)), None, FALSE)

\* return pos, vel
Tuple2(pos, vel) ==
    IF ~IsOk(pos) THEN pos
    ELSE IF ~IsOk(vel) THEN vel
    ELSE Ok([pos |-> pos.val, vel |-> vel.val])

one_sample(traj_fn, ctx, t) ==
    Tuple2(Position(traj_fn, t, ctx), Velocity(traj_fn, t, ctx))

\* positions, velocities = vmap(one_sample)(t_samples)
Unzip(run) ==
    IF ~IsOk(run.out) THEN run
    ELSE [run EXCEPT !.out =
              Ok([positions |-> [k \in DOMAIN run.out.val |-> run.out.val[k].pos],
                  velocities |-> [k \in DOMAIN run.out.val |-> run.out.val[k].vel]])]

\* generate_horizon_with_velocity whose check rejects only negative counts
generate_horizon_with_velocity_lt0(traj_fn, ctx, t_start, horizon, num_steps) ==
    IF num_steps < 0
    THEN Run(Raise("ValueError", "num_steps must be >= 1"), None, FALSE)
    ELSE LET ts == t_samples(t_start, horizon, num_steps).val
         IN  Unzip(Run(vmap(one_sample(traj_fn, ctx, Q0),
                            [k \in DOMAIN ts |-> one_sample(traj_fn, ctx, ts[k])]),
                       Some(ts), TRUE))

generate_horizon_with_velocity(traj_fn, ctx, t_start, horizon, num_steps) ==
    IF num_steps <= 0
    THEN Run(Raise("ValueError", "num_steps must be >= 1"), None, FALSE)
    ELSE LET ts == t_samples(t_start, horizon, num_steps).val
         IN  Unzip(Run(vmap(one_sample(traj_fn, ctx, Q0),
                            [k \in DOMAIN ts |-> one_sample(traj_fn, ctx, ts[k])]),
                       Some(ts), TRUE))

\* generate_reference_trajectory passing t_start and horizon in each other's place
generate_reference_trajectory_swapped(traj_func, t_start, horizon, num_steps, ctx) ==
    generate_horizon_with_velocity(traj_func, ctx, horizon, t_start, num_steps)

generate_reference_trajectory(traj_func, t_start, horizon, num_steps, ctx) ==
    generate_horizon_with_velocity(traj_func, ctx, t_start, horizon, num_steps)

----------------------------------------------------------------------------
(* Calls.  A behaviour is one call of the library: Init draws the call,    *)
(* the action of the called operation runs it and stores the outcome in    *)
(* result and what the operation left behind in locals.                    *)

Pending == [kind |-> "pending", val |-> <<>>, exc |-> "", msg |-> ""]
Done == result # Pending

PositionCall(fn, ctx, t) ==
    [op |-> "position", fn |-> fn, ctx |-> ctx, t |-> t, horizon |-> Q0, num_steps |-> 0]
HorizonCall(op, fn, ctx, t_start, horizon, num_steps) ==
    [op |-> op, fn |-> fn, ctx |-> ctx, t |-> t_start, horizon |-> horizon,
     num_steps |-> num_steps]

\* traj_fn(call.t, call.ctx), traced being the function called on the tracer t
Apply(fn, traced) ==
    /\ call.op = "position"
    /\ call.fn = fn
    /\ ~Done
    /\ result' = Primal(Call(traced, DConst(call.t)))
    /\ locals' = LocalsAt(traced, DConst(call.t))
    /\ UNCHANGED call

CallHover == Apply("hover", hover(V("t"), call.ctx))
CallYawOnly == Apply("yaw_only", yaw_only(V("t"), call.ctx))
CallCircleHorizontal == Apply("circle_horz", circle_horizontal(V("t"), call.ctx))
CallCircleVertical == Apply("circle_vert", circle_vertical(V("t"), call.ctx))
CallFig8Horizontal == Apply("fig8_horz", fig8_horizontal(V("t"), call.ctx))
CallFig8Vertical == Apply("fig8_vert", fig8_vertical(V("t"), call.ctx))
CallHelix == Apply("helix", helix(V("t"), call.ctx))
CallSawtooth == Apply("sawtooth", sawtooth(V("t"), call.ctx))
CallTriangle == Apply("triangle", triangle(V("t"), call.ctx))

\* every position function, every context, a few times
SampleTimes == {Q(-7, 2), Q0, Q(5, 1)}

InitPosition ==
    /\ call \in {PositionCall(fn, ctx, t) :
                    fn \in TrajectoryType, ctx \in TrajContext, t \in SampleTimes}
    /\ result = Pending
    /\ locals = <<>>

NextPosition ==
    \/ CallHover
    \/ CallYawOnly
    \/ CallCircleHorizontal
    \/ CallCircleVertical
    \/ CallFig8Horizontal
    \/ CallFig8Vertical
    \/ CallHelix
    \/ CallSawtooth
    \/ CallTriangle

SpecPosition == InitPosition /\ [][NextPosition]_vars

\* the piecewise trajectories on a grid of times: t = (k + o) * Quantum(fn);
\* the grid holds every segment boundary, with and without double_speed, of
\* more than one cycle on both sides of 0, and times inside the segments
Quantum(fn) ==
    CASE fn = "sawtooth" -> Q(120, 11)
      [] fn = "triangle" -> Q(20, 1)
      [] fn = "helix" -> Q(45, 4)
Offsets == {Q0, Q(1, 3), Q(1, 2)}
Times(fn) == {QMul(QAdd(QInt(k), o), Quantum(fn)) : k \in (-MaxK)..MaxK, o \in Offsets}

PiecewiseContexts ==
    {ctx \in TrajContext : ctx.hover_mode = None /\ ctx.short = None
                            /\ ctx.spin \in {None, Some(TRUE)}}

InitPiecewise ==
    /\ call \in UNION {{PositionCall(fn, ctx, t) : ctx \in PiecewiseContexts, t \in Times(fn)} :
                          fn \in {"helix", "sawtooth", "triangle"}}
    /\ result = Pending
    /\ locals = <<>>

NextPiecewise ==
    \/ CallHelix
    \/ CallSawtooth
    \/ CallTriangle

SpecPiecewise == InitPiecewise /\ [][NextPiecewise]_vars

\* the horizon utilities
HorizonFns == {"hover", "circle_horz", "sawtooth", "helix"}
HorizonContexts ==
    {ctx \in TrajContext :
        /\ ctx.hover_mode \in {None, Some(5), Some(MaxHoverMode)}
        /\ ctx.spin = Some(TRUE)
        /\ ctx.double_speed = None
        /\ ctx.short = None}
StartTimes == {Q(-5, 2), Q0, Q(7, 1)}
Horizons == {Q1, Q(30, 1)}
HorizonOps == {"generate_horizon_positions", "generate_horizon_with_velocity",
               "generate_reference_trajectory"}

\* the utility has run: its outcome and what it left behind
Finish(run) ==
    /\ ~Done
    /\ result' = run.out
    /\ locals' = [t_samples |-> run.t_samples, traced |-> run.traced]
    /\ UNCHANGED call

CallGenerateHorizonPositions ==
    /\ call.op = "generate_horizon_positions"
    /\ Finish(generate_horizon_positions(call.fn, call.ctx, call.t, call.horizon,
                                         call.num_steps))

CallGenerateHorizonWithVelocity ==
    /\ call.op = "generate_horizon_with_velocity"
    /\ Finish(generate_horizon_with_velocity(call.fn, call.ctx, call.t, call.horizon,
                                             call.num_steps))

CallGenerateReferenceTrajectory ==
    /\ call.op = "generate_reference_trajectory"
    /\ Finish(generate_reference_trajectory(call.fn, call.t, call.horizon,
                                            call.num_steps, call.ctx))

InitHorizon ==
    /\ call \in {HorizonCall(op, fn, ctx, t, h, n) :
                    op \in HorizonOps, fn \in HorizonFns, ctx \in HorizonContexts,
                    t \in StartTimes, h \in Horizons, n \in (-1)..MaxSteps}
    /\ result = Pending
    /\ locals = <<>>

NextHorizon ==
    \/ CallGenerateHorizonPositions
    \/ CallGenerateHorizonWithVelocity
    \/ CallGenerateReferenceTrajectory

SpecHorizon == InitHorizon /\ [][NextHorizon]_vars

----------------------------------------------------------------------------
(* Properties *)

\* the call of operation op on trajectory fn has returned or raised
Returned(op, fn) == call.op = op /\ call.fn = fn /\ Done
ValueErrorRaised == result.kind = "raise" /\ result.exc = "ValueError"
RuntimeErrorRaised == result.kind = "raise" /\ result.exc = "RuntimeError"

\* the hover slot of a context, 1 when absent
Slot(ctx) == IF ctx.hover_mode = None THEN 1 ELSE ctx.hover_mode[1]

\* C1: the outcome of hover(t, ctx) depends only on the slot (1 when absent)
\* and on sim, never on t: a slot outside 1..8 raises ValueError, whatever
\* sim is; a slot in 5..8 on hardware raises RuntimeError; every other call
\* returns the table row of the slot, whose yaw is 0 (slot 5 in simulation
\* returns [0, 0, -10, 0]).
C1_HoverOutcome ==
    Returned("position", "hover") =>
        LET slot == Slot(call.ctx)
        IN  /\ slot \notin 1..8 => ValueErrorRaised
            /\ (slot \in 5..8 /\ ~call.ctx.sim) => RuntimeErrorRaised
            /\ (slot \in 1..8 /\ (call.ctx.sim \/ slot <= 4)) =>
                   /\ result = Ok([i \in 1..4 |-> VQ(hover_dict[slot][i])])
                   /\ result.val[4] = VQ(Q0)
                   /\ slot = 5 => result.val = <<VQ(Q0), VQ(Q0), VQ(Q(-10, 1)), VQ(Q0)>>

\* hover slot 5 in simulation, at a time other than 0, returned [0, 0, -10, 0]
C1_Witness ==
    /\ Returned("position", "hover")
    /\ call.ctx.hover_mode = Some(5)
    /\ call.ctx.sim
    /\ call.t # Q0
    /\ result = Ok(<<VQ(Q0), VQ(Q0), VQ(Q(-10, 1)), VQ(Q0)>>)

\* C2: generate_horizon_with_velocity with num_steps < 1 raises
\* ValueError("num_steps must be >= 1") for every trajectory function,
\* context, t_start and horizon; it has then built no time sample and has
\* not evaluated the trajectory function.
C2_NumStepsRejected ==
    (call.op = "generate_horizon_with_velocity" /\ Done /\ call.num_steps < 1) =>
        /\ result = Raise("ValueError", "num_steps must be >= 1")
        /\ locals.t_samples = None
        /\ locals.traced = FALSE

\* num_steps = 0 with a hover context that hover itself rejects: the error
\* is the one about num_steps
C2_Witness ==
    /\ Returned("generate_horizon_with_velocity", "hover")
    /\ call.num_steps = 0
    /\ call.ctx.hover_mode = Some(MaxHoverMode)
    /\ ValueErrorRaised
    /\ result.msg = "num_steps must be >= 1"

\* C3: generate_horizon_positions with num_steps < 1 reports an
\* invalid-argument error (ValueError) and returns no result.
C3_PositionsRejectNumSteps ==
    (call.op = "generate_horizon_positions" /\ Done /\ call.num_steps < 1) =>
        ValueErrorRaised

\* sample k (from 0) of a horizon call: t_start + k * horizon / (num_steps - 1),
\* t_start itself when there is one sample
SampleTime(k) ==
    IF call.num_steps = 1 THEN call.t
    ELSE QAdd(call.t, QDiv(QMul(QInt(k), call.horizon), QInt(call.num_steps - 1)))

\* C4: for n >= 1, generate_horizon_positions(f, ctx, t0, h, n) returns
\* exactly n rows, row k being position(t0 + k*h/(n-1), ctx), and the single
\* row of n = 1 being position(t0, ctx).
C4_PositionsRows ==
    (/\ call.op = "generate_horizon_positions"
     /\ Done
     /\ call.num_steps >= 1
     /\ IsOk(Position(call.fn, call.t, call.ctx))) =>
        /\ IsOk(result)
        /\ Len(result.val) = call.num_steps
        /\ \A k \in 0..(call.num_steps - 1) :
               result.val[k + 1] = Position(call.fn, SampleTime(k), call.ctx).val


\* C5: for num_steps >= 1, generate_horizon_with_velocity returns positions
\* and velocities of exactly num_steps rows each; row k of positions is
\* f(s_k, ctx) and row k of velocities is the derivative of f(., ctx) at the
\* same s_k, s_k = t_start + k*horizon/(num_steps-1) (t_start when there is
\* one sample).  When f rejects ctx, the call raises what f raises.
C5_RowsPosVel ==
    (call.op = "generate_horizon_with_velocity" /\ Done /\ call.num_steps >= 1) =>
        IF IsOk(Position(call.fn, call.t, call.ctx))
        THEN /\ IsOk(result)
             /\ Len(result.val.positions) = call.num_steps
             /\ Len(result.val.velocities) = call.num_steps
             /\ \A k \in 0..(call.num_steps - 1) :
                    /\ result.val.positions[k + 1] =
                           Position(call.fn, SampleTime(k), call.ctx).val
                    /\ result.val.velocities[k + 1] =
                           Velocity(call.fn, SampleTime(k), call.ctx).val
        ELSE result = Position(call.fn, call.t, call.ctx)

\* sawtooth sampled at 0, 15, 30: the middle row is on the segment from
\* (0, 0.4) to (0.4, -0.4), at x = 0.15, moving in y at -0.8 / (120/11)
C5_Witness ==
    /\ Returned("generate_horizon_with_velocity", "sawtooth")
    /\ call.t = Q0
    /\ call.horizon = Q(30, 1)
    /\ call.num_steps = 3
    /\ IsOk(result)
    /\ result.val.positions[2][1] = VQ(Q(3, 20))
    /\ result.val.velocities[2][2] = VQ(Q(-11, 150))

\* C6: generate_reference_trajectory(f, t_start, horizon, num_steps, ctx)
\* has the outcome of generate_horizon_with_velocity(f, ctx, t_start,
\* horizon, num_steps), the same pair of batches or the same error.
C6_ReferenceSameOutcome ==
    (call.op = "generate_reference_trajectory" /\ Done) =>
        result = generate_horizon_with_velocity(call.fn, call.ctx, call.t,
                                                call.horizon, call.num_steps).out

\* a reference trajectory of several rows whose start differs from its horizon
C6_Witness ==
    /\ Returned("generate_reference_trajectory", "sawtooth")
    /\ call.num_steps >= 2
    /\ call.t # call.horizon
    /\ IsOk(result)
    /\ Len(result.val.positions) = call.num_steps
    /\ result.val.positions[1] # result.val.positions[2]

\* the call is one of sawtooth or triangle and has returned
WaypointCall == (Returned("position", "sawtooth") \/ Returned("position", "triangle"))
\* the primal value of a local variable
Local(name) == locals[name].p.c
\* the number of segments and of waypoints the claims state
NumSegments == IF call.fn = "sawtooth" THEN 11 ELSE 3
NumPoints == IF call.fn = "sawtooth" THEN 12 ELSE 3
\* the duration of one cycle, read from the local variables env of fn
CycleDuration(fn, env) ==
    CASE fn = "sawtooth" -> QMul(env.num_segments.p.c, env.T_seg.p.c)
      [] fn = "triangle" -> QMul(QInt(3), env.T_seg.p.c)
      [] fn = "helix" -> env.cycle_time.p.c
\* k when call.t = k * T_seg
BoundaryNumber == QDiv(call.t, Local("T_seg"))

\* C7: sawtooth has 12 waypoints and 11 segments, triangle 3 and 3; at
\* t = k * T_seg, k any integer, the returned xy is waypoint (k mod number of
\* segments); so the end of a cycle is on the first waypoint.
C7_WaypointPassThrough ==
    WaypointCall =>
        /\ Len(locals.points) = NumPoints
        /\ BoundaryNumber[2] = 1 =>
               LET w == locals.points[(BoundaryNumber[1] % NumSegments) + 1]
               IN  /\ result.val[1] = w[1].p
                   /\ result.val[2] = w[2].p

\* sawtooth at k = -12: waypoint 10, (0, -0.4)
C7_Witness ==
    /\ Returned("position", "sawtooth")
    /\ ~Truthy(call.ctx.double_speed)
    /\ call.t = Q(-1440, 11)
    /\ BoundaryNumber = QInt(-12)
    /\ result.val[1] = VQ(Q0)
    /\ result.val[2] = VQ(Q(-2, 5))

\* the default of each optional field of TrajContext
Defaults ==
    [hover_mode |-> Some(1), spin |-> Some(FALSE), double_speed |-> Some(FALSE),
     short |-> Some(FALSE)]

\* C8: for each position function and every t, a context with an optional
\* field absent gives the outcome of the context with that field at its
\* default (hover slot 1, the others false), and no function but hover fails.
C8_AbsentIsDefault ==
    (call.op = "position" /\ Done) =>
        /\ \A f \in DOMAIN Defaults :
               call.ctx[f] = None =>
                   result = Position(call.fn, call.t, [call.ctx EXCEPT ![f] = Defaults[f]])
        /\ call.fn # "hover" => IsOk(result)


\* the local variables of call.fn at time 2 * call.t under the context base
AtTwiceTheTime(base) ==
    LocalsAt(TRAJ_REGISTRY(call.fn, V("t"), base), DConst(QMul(QInt(2), call.t)))
\* the cycle duration without double_speed
NominalCycle ==
    CASE call.fn = "sawtooth" -> Q(120, 1)
      [] call.fn = "triangle" -> Q(60, 1)
      [] call.fn = "helix" -> Q(45, 1)

\* C9: with double_speed the cycle of sawtooth, triangle and helix lasts half
\* of what it lasts without (60 for 120, 30 for 60, 22.5 for 45), and the
\* segment index and xy of sawtooth and triangle and the height of helix at
\* t are those at 2t with double_speed false or absent, the rest of the
\* context being the same.
C9_DoubleSpeedHalvesPeriod ==
    (call.op = "position" /\ Done /\ Truthy(call.ctx.double_speed)) =>
        \A off \in {None, Some(FALSE)} :
            LET slow == AtTwiceTheTime([call.ctx EXCEPT !.double_speed = off])
            IN  /\ CycleDuration(call.fn, slow) = NominalCycle
                /\ CycleDuration(call.fn, locals) = QDiv(NominalCycle, QInt(2))
                /\ WaypointCall =>
                       /\ locals.segment_idx = slow.segment_idx
                       /\ locals.x.p = slow.x.p /\ result.val[1] = slow.x.p
                       /\ locals.y.p = slow.y.p /\ result.val[2] = slow.y.p
                /\ call.fn = "helix" =>
                       /\ locals.z.p = slow.z.p
                       /\ result.val[3] = VNeg(slow.z.p)

\* sawtooth at double speed, at a negative time inside its eighth segment
C9_Witness ==
    /\ Returned("position", "sawtooth")
    /\ call.ctx.double_speed = Some(TRUE)
    /\ QLt(call.t, Q0)
    /\ Local("segment_idx") = QInt(7)
    /\ QLt(Q0, Local("alpha"))
    /\ CycleDuration("sawtooth", locals) = Q(60, 1)

\* the index of the end waypoint: (segment_idx + 1) % len(points)
EndIndex == (Local("segment_idx")[1] + 1) % Len(locals.points)
\* start + (end - start) * alpha on component i
Interpolated(i) ==
    VAdd(locals.start_point[i].p,
         VMul(VAdd(locals.end_point[i].p, VNeg(locals.start_point[i].p)),
              locals.alpha.p))

\* C10: in sawtooth and triangle, for every t and context, cycle_time is
\* t mod the cycle duration and lies in [0, cycle duration), segment_idx lies
\* in 0..num_segments-1, the end index is an index of the waypoint list,
\* alpha lies in [0, 1), and the returned xy is the point at alpha of the
\* segment from waypoint segment_idx to the next waypoint.
C10_SegmentAndAlphaInRange ==
    WaypointCall =>
        LET cycle == CycleDuration(call.fn, locals)
        IN  /\ QLe(Q0, Local("cycle_time")) /\ QLt(Local("cycle_time"), cycle)
            /\ QDiv(QSub(call.t, Local("cycle_time")), cycle)[2] = 1
            /\ Local("segment_idx")[2] = 1
            /\ Local("segment_idx")[1] \in 0..(NumSegments - 1)
            /\ EndIndex \in 0..(Len(locals.points) - 1)
            /\ EndIndex = (Local("segment_idx")[1] + 1) % NumPoints
            /\ locals.start_point = locals.points[Local("segment_idx")[1] + 1]
            /\ locals.end_point = locals.points[EndIndex + 1]
            /\ QLe(Q0, Local("alpha")) /\ QLt(Local("alpha"), Q1)
            /\ result.val[1] = Interpolated(1)
            /\ result.val[2] = Interpolated(2)

\* triangle more than a cycle before 0, inside its last segment, which ends
\* on the first vertex
C10_Witness ==
    /\ Returned("position", "triangle")
    /\ QLt(call.t, Q(-60, 1))
    /\ Local("segment_idx") = QInt(2)
    /\ EndIndex = 0
    /\ QLt(Q0, Local("alpha"))


\* z0 + (z_max - z0) * frac, with z0 and z_max read from the local variables
HeightAt(frac) ==
    QAdd(Local("z0"), QMul(QSub(Local("z_max"), Local("z0")), frac))
\* the fraction of the half cycle elapsed on the way up, left on the way down
\* when the time within the cycle is tc
UpFraction(tc) == QDiv(tc, Local("T_half"))
DownFraction(tc) == QSub(Q1, QDiv(QSub(tc, Local("T_half")), Local("T_half")))

\* C11: in helix the height z lies between z0 and z_max (2 and 3 in
\* simulation, 0.85 and 2.6 on hardware) and the returned third component is
\* -z; z rises linearly from z0 to z_max over the first half of the cycle and
\* falls linearly back over the second half; the two branches both give
\* z_max at the half-cycle point, and the falling branch at the end of the
\* cycle gives z0, the value at the start of the next cycle.
C11_HelixHeight ==
    Returned("position", "helix") =>
        LET tc == Local("t_cycle")
            cycle == CycleDuration("helix", locals)
        IN  /\ Local("z0") = IF call.ctx.sim THEN Q(2, 1) ELSE Q(17, 20)
            /\ Local("z_max") = IF call.ctx.sim THEN Q(3, 1) ELSE Q(13, 5)
            /\ Local("T_half") = QDiv(cycle, QInt(2))
            /\ QLe(Q0, tc) /\ QLt(tc, cycle)
            /\ QLe(Local("z0"), Local("z")) /\ QLe(Local("z"), Local("z_max"))
            /\ result.val[3] = VQ(QNeg(Local("z")))
            /\ QLe(tc, Local("T_half")) => Local("z") = HeightAt(UpFraction(tc))
            /\ QLe(Local("T_half"), tc) => Local("z") = HeightAt(DownFraction(tc))
            /\ tc = Local("T_half") =>
                   Local("z_up") = Local("z_max") /\ Local("z_down") = Local("z_max")
            /\ tc = Q0 => Local("z") = Local("z0")
            /\ HeightAt(DownFraction(cycle)) = Local("z0")

\* helix on hardware, half a cycle before 0: the top of the climb, 2.6
C11_Witness ==
    /\ Returned("position", "helix")
    /\ ~call.ctx.sim
    /\ QLt(call.t, Q0)
    /\ Local("t_cycle") = Local("T_half")
    /\ Local("z") = Q(13, 5)
    /\ result.val[3] = VQ(Q(-13, 5))


\* theta = 2 * pi * 3 * progress, and the xy of the circle of radius 0.6 at it
ThreeTurnsOf(progress) ==
    /\ Local("num_turns") = QInt(3)
    /\ locals.theta.p = VMono(QMul(QInt(3), progress), 1, "one", Q0)
    /\ result.val[1] = VMono(Q(3, 5), 0, "cos", QMul(QInt(3), progress))
    /\ result.val[2] = VMono(Q(3, 5), 0, "sin", QMul(QInt(3), progress))

====
